---- MODULE Spec2Model ----
(***************************************************************************)
(* Model of findcode's code-region discovery engine                        *)
(* (src/src/findcode.cpp, src/src/analysis.cpp, src/src/microcode.cpp).    *)
(*                                                                         *)
(* A ROM is a sequence of 32-bit instruction words.  Offsets are byte      *)
(* offsets, as in the source.  The instruction decoder (rabbitizer) is     *)
(* modelled on the instruction words listed in Words: the fields are taken *)
(* from the bits of the word, the opcode identifier and the descriptor     *)
(* flags from the MIPS III / RSP encodings of those words.                 *)
(***************************************************************************)
EXTENDS Integers, Sequences, FiniteSets, TLC

VARIABLES
    image,        \* the words in memory from offset code_base on: the ROM buffer, then what follows it
    rom_size,     \* rom_bytes.size(): the length N of the ROM buffer in bytes
    pc,           \* position of find_code_regions (or of the trim_region driver)
    return_addrs, \* the vector returned by find_return_locations
    it,           \* the cursor into return_addrs (1-based; Len + 1 is end())
    ret,          \* the vector of RomRegion built by find_code_regions
    min_read,     \* lowest offset read so far by read32 (NoRead before the first read)
    max_read,     \* highest offset read so far by read32 (NoRead before the first read)
    valid_range   \* the result of check_range_cpu or check_range_rsp on a range (RangeSpec)

vars == <<image, rom_size, pc, return_addrs, it, ret, min_read, max_read, valid_range>>

----------------------------------------------------------------------------
(* Program constants *)

instruction_size == 4

microcode_check_threshold == 1024 * instruction_size

\* 0x03E00008 = jr $ra, as the bit fields <<opcode, rs, rt, low halfword>>
jr_ra == <<0, 31, 0, 8>>

\* 0x1000: the first offset find_return_locations and find_code_start consider
code_base == 4096

(* Bounds of the model *)

\* a ROM image is made of at most MaxChunks chunks
MaxChunks == 5

\* at most MaxSlack words of readable memory follow the ROM buffer
MaxSlack == 2

\* the images of the specification TrimSpec have at most MaxTrimWords words
MaxTrimWords == 4

\* the images of the specification RangeSpec have at most MaxRangeWords words
MaxRangeWords == 4

\* the files of the specification LoadSpec have at most MaxFileWords words
\* after the first one
MaxFileWords == 5

\* the gaps of the specification MergeSpec are at most MaxGapDelta words
\* shorter or longer than microcode_check_threshold
MaxGapDelta == 2

----------------------------------------------------------------------------
(* Instruction words *)

\* A 32-bit word is kept as its bit fields <<opcode (6 bits), rs (5), rt (5),
\* low halfword (16)>>: two words are equal iff their fields are.

\* 0x00000000  nop
NOP == <<0, 0, 0, 0>>

\* 0x27BDFFF8  addiu $sp, $sp, -8
ADDIU_SP == <<9, 29, 29, 65528>>

\* 0xE7AC0000  swc1 $f12, 0($sp)          (RSP view: swc1, not an RSP instruction)
SWC1_FA0 == <<57, 29, 12, 0>>

\* 0xC8812000  RSP: lqv $v1[0], 0($a0)    (CPU view: lwc2)
LQV == <<50, 4, 1, 8192>>

\* 0x70000000  opcode 0x1C: no instruction of the CPU or of the RSP
INVALID_WORD == <<28, 0, 0, 0>>

Words == {NOP, jr_ra, ADDIU_SP, SWC1_FA0, LQV, INVALID_WORD}

----------------------------------------------------------------------------
(* The decoder: fields of an instruction word *)

Get_opcode(w) == w[1]

GetO32_rs(w) == w[2]

GetO32_rt(w) == w[3]

GetO32_rd(w) == w[4] \div 2048

Get_sa(w) == (w[4] \div 64) % 32

Get_function(w) == w[4] % 64

\* the cop1 fields share the bits of rt, rd and sa
GetO32_ft(w) == GetO32_rt(w)

GetO32_fs(w) == GetO32_rd(w)

GetO32_fd(w) == Get_sa(w)

\* O32 register numbers
GPR_O32_zero == 0

GPR_O32_v0 == 2

GPR_O32_a0 == 4

GPR_O32_a1 == 5

GPR_O32_a2 == 6

GPR_O32_a3 == 7

GPR_O32_sp == 29

GPR_O32_ra == 31

\* InstructionCpu::getUniqueId, on the encodings of Words
CpuUniqueId(w) ==
    CASE Get_opcode(w) = 0 /\ Get_function(w) = 0 -> IF w = NOP THEN "cpu_nop" ELSE "cpu_sll"
      [] Get_opcode(w) = 0 /\ Get_function(w) = 8 -> "cpu_jr"
      [] Get_opcode(w) = 9  -> "cpu_addiu"
      [] Get_opcode(w) = 57 -> "cpu_swc1"
      [] Get_opcode(w) = 50 -> "cpu_lwc2"
      [] OTHER -> "cpu_INVALID"

\* InstructionRsp::getUniqueId, on the encodings of Words
RspUniqueId(w) ==
    CASE Get_opcode(w) = 0 /\ Get_function(w) = 0 -> IF w = NOP THEN "rsp_nop" ELSE "rsp_sll"
      [] Get_opcode(w) = 0 /\ Get_function(w) = 8 -> "rsp_jr"
      [] Get_opcode(w) = 9  -> "rsp_addiu"
      [] Get_opcode(w) = 57 -> "rsp_swc1"
      [] Get_opcode(w) = 50 /\ GetO32_rd(w) = 4 -> "rsp_lqv"
      [] OTHER -> "rsp_INVALID"

\* Instruction::isValid: the bits the encoding does not use are zero
InstrIsValid(id, w) ==
    CASE id \in {"cpu_jr", "rsp_jr"} -> GetO32_rt(w) = 0 /\ w[4] \div 64 = 0
      [] id \in {"cpu_sll", "rsp_sll"} -> GetO32_rs(w) = 0
      [] id \in {"cpu_INVALID", "rsp_INVALID"} -> FALSE
      [] OTHER -> TRUE

\* descriptor flags of the decoder
modifiesRd(id) == id \in {"cpu_sll", "rsp_sll"}

modifiesRt(id) == id \in {"cpu_addiu", "rsp_addiu"}

doesStore(id) == id \in {"cpu_swc1", "rsp_swc1"}

doesLoad(id) == id \in {"cpu_lwc2", "rsp_lqv"}

isFloat(id) == id \in {"cpu_swc1", "rsp_swc1"}

isTrap(id) == FALSE

\* Instruction::hasOperandAlias: the operands the instruction has
hasOperandAlias(id, operand) ==
    CASE id = "cpu_jr"    -> operand \in {"cpu_rs"}
      [] id = "cpu_addiu" -> operand \in {"cpu_rt", "cpu_rs"}
      [] id = "cpu_sll"   -> operand \in {"cpu_rd", "cpu_rt"}
      [] id = "cpu_swc1"  -> operand \in {"cpu_ft", "cpu_rs"}
      [] id = "cpu_lwc2"  -> operand \in {"cpu_rs"}
      [] OTHER -> FALSE

----------------------------------------------------------------------------
(* The validators *)

invalid_cop0_register(reg) == reg = 7 \/ (reg >= 21 /\ reg <= 25) \/ reg = 31

is_unused_n64_instruction(id) ==
    id \in {"cpu_ll", "cpu_sc", "cpu_lld", "cpu_scd", "cpu_syscall"}

\* is_valid(InstructionCpu{w, 0})
is_valid(w) ==
    LET id == CpuUniqueId(w)
        instr_is_store == doesStore(id)
        instr_is_gpr_load == doesLoad(id) /\ ~isFloat(id)
        instr_is_fpr_load == doesLoad(id) /\ isFloat(id)
    IN  CASE ~InstrIsValid(id, w) \/ id = "cpu_INVALID" -> FALSE
          [] (instr_is_store \/ instr_is_gpr_load \/ instr_is_fpr_load)
                /\ GetO32_rs(w) = GPR_O32_zero -> FALSE
          [] modifiesRd(id) /\ GetO32_rd(w) = GPR_O32_zero -> FALSE
          [] modifiesRt(id) /\ GetO32_rt(w) = GPR_O32_zero -> FALSE
          [] id \in {"cpu_mtc0", "cpu_mfc0"} /\ invalid_cop0_register(GetO32_rd(w)) -> FALSE
          [] is_unused_n64_instruction(id) -> FALSE
          [] id = "cpu_cache" /\ (GetO32_rt(w) \div 4 > 6 \/ GetO32_rt(w) % 4 > 1) -> FALSE
          [] id \in {"cpu_lwc2", "cpu_ldc2", "cpu_swc2", "cpu_sdc2"} -> FALSE
          [] isTrap(id) -> FALSE
          [] id \in {"cpu_ctc0", "cpu_cfc0"} -> FALSE
          [] id = "cpu_pref" -> FALSE
          [] OTHER -> TRUE

invalid_rsp_cop0_register(reg) == reg > 15

\* is_valid_rsp(InstructionRsp{w, 0})
is_valid_rsp(w) ==
    LET id == RspUniqueId(w)
    IN  CASE id = "rsp_INVALID" -> FALSE
          [] ~InstrIsValid(id, w) -> FALSE
          [] modifiesRd(id) /\ GetO32_rd(w) = GPR_O32_zero -> FALSE
          [] modifiesRt(id) /\ GetO32_rt(w) = GPR_O32_zero -> FALSE
          [] id \in {"rsp_mtc0", "rsp_mfc0"} /\ invalid_rsp_cop0_register(GetO32_rd(w)) -> FALSE
          [] id \in {"rsp_lwc1", "rsp_swc1", "cpu_ctc0", "cpu_cfc0", "rsp_cache"} -> FALSE
          [] OTHER -> TRUE

\* is_valid and is_valid_rsp tabulated over Words, for the walks over the ROM
cpu_valid == [w \in Words |-> is_valid(w)]

rsp_valid == [w \in Words |-> is_valid_rsp(w)]

----------------------------------------------------------------------------
(* Memory *)

\* marks an operation that read past the readable memory and did not return
FAULT == 0 - 1

\* the value of min_read and max_read before the first read
NoRead == 0 - 1

\* first offset past the readable memory: the buffer and the words that follow it
Mapped == code_base + instruction_size * Len(image)

\* the last words of the 0x1000-byte header, which precede the scanned area
header_word == INVALID_WORD

\* read32(rom_bytes, offset), for an offset below Mapped
read32(offset) ==
    IF offset < code_base
    THEN header_word
    ELSE image[(offset - code_base) \div instruction_size + 1]

\* is_valid and is_valid_rsp of the word at an offset
cpu_valid_at(offset) == cpu_valid[read32(offset)]

rsp_valid_at(offset) == rsp_valid[read32(offset)]

Min(a, b) == IF a < b THEN a ELSE b

Max(a, b) == IF a > b THEN a ELSE b

\* min_read and max_read after reads at every offset from lo to hi
ReadLo(cur, lo) == IF cur = NoRead THEN lo ELSE Min(cur, lo)

ReadHi(cur, hi) == IF cur = NoRead THEN hi ELSE Max(cur, hi)

\* the offsets o of words with lo <= o < hi, lo and hi being word-aligned
Offsets(lo, hi) ==
    {lo + instruction_size * k : k \in 0..((hi - lo) \div instruction_size - 1)}

\* the lowest and the highest element of a non-empty set of offsets
Lowest(S) == CHOOSE x \in S : \A y \in S : x <= y

Highest(S) == CHOOSE x \in S : \A y \in S : y <= x

\* the elements of a set of offsets in ascending order
Ascending(S) ==
    [i \in 1..Cardinality(S) |-> CHOOSE x \in S : Cardinality({y \in S : y < x}) = i - 1]

----------------------------------------------------------------------------
(* Return-site scanner *)

\* the loop of find_return_locations: it visits every offset of the buffer
\* from 0x1000 on in ascending order and pushes each offset that holds jr $ra
\* with a delay slot one of the validators accepts; <<FAULT>> when a
\* delay-slot read leaves the readable memory
scan_returns ==
    LET sites == {rom_addr \in Offsets(code_base, rom_size) : read32(rom_addr) = jr_ra}
    IN  IF \E rom_addr \in sites : rom_addr + instruction_size >= Mapped
        THEN <<FAULT>>
        ELSE Ascending({rom_addr \in sites :
                            cpu_valid_at(rom_addr + instruction_size)
                                \/ rsp_valid_at(rom_addr + instruction_size)})

find_return_locations == scan_returns

\* the highest offset find_return_locations reads: the delay slot of a jr $ra
\* in the last word of the buffer lies past the buffer
scan_max_read ==
    IF rom_size <= code_base
    THEN NoRead
    ELSE IF read32(rom_size - instruction_size) = jr_ra
         THEN rom_size
         ELSE rom_size - instruction_size

----------------------------------------------------------------------------
(* Region grower *)

\* the loop walks down from rom_addr and returns the first offset whose
\* preceding word is not valid, 0x1000 when it finds none
find_code_start(rom_addr) ==
    LET stops == {a \in Offsets(code_base + instruction_size, rom_addr + instruction_size) :
                        ~cpu_valid_at(a - instruction_size)}
    IN  IF rom_addr > code_base
        THEN IF stops = {} THEN code_base ELSE Highest(stops)
        ELSE rom_addr

RECURSIVE find_code_end_stops_at_zero(_)
\* find_code_end as it would be if a zero word ended the walk like an invalid
\* instruction does
find_code_end_stops_at_zero(rom_addr) ==
    IF rom_addr > 0
    THEN IF rom_addr >= Mapped
         THEN FAULT
         ELSE IF ~cpu_valid_at(rom_addr) \/ read32(rom_addr) = NOP
              THEN rom_addr
              ELSE find_code_end_stops_at_zero(rom_addr + instruction_size)
    ELSE rom_addr

\* the loop walks up from rom_addr and returns the first offset whose word is
\* not valid; FAULT when the walk leaves the readable memory
find_code_end(rom_addr) ==
    LET stops == {a \in Offsets(rom_addr, Mapped) : ~cpu_valid_at(a)}
    IN  IF rom_addr > 0
        THEN IF stops = {} THEN FAULT ELSE Lowest(stops)
        ELSE rom_addr

is_unconditional_branch(instruction_word) ==
    CpuUniqueId(instruction_word) \in {"cpu_b", "cpu_j", "cpu_jr"}

----------------------------------------------------------------------------
(* Start-boundary analyzer *)

weak_uninitialized_check == TRUE

\* gpr_reg_states after lines 182-197 of analysis.cpp: the initialized GPRs
gpr_reg_states ==
    {GPR_O32_zero, GPR_O32_sp, GPR_O32_ra, GPR_O32_a0, GPR_O32_a1, GPR_O32_a2, GPR_O32_a3}
        \cup (IF weak_uninitialized_check THEN {GPR_O32_v0} ELSE {})

\* fpr_reg_states after lines 202-211: the statements there only index the
\* array, they assign nothing, so no FPR is initialized
fpr_reg_states == {}

has_operand_input(w, operand) ==
    LET id == CpuUniqueId(w)
    IN  IF hasOperandAlias(id, operand)
        THEN CASE operand = "cpu_rd" -> ~modifiesRd(id)
               [] operand = "cpu_rt" -> ~modifiesRt(id)
               [] operand = "cpu_rs" -> TRUE
               [] operand = "cpu_fd" -> FALSE
               [] operand = "cpu_ft" -> id \notin {"cpu_lwc1", "cpu_ldc1"}
               [] operand = "cpu_fs" -> id \notin {"cpu_mtc1", "cpu_dmtc1"}
               [] OTHER -> FALSE
        ELSE FALSE

has_zero_output(w) ==
    \/ modifiesRd(CpuUniqueId(w)) /\ GetO32_rd(w) = GPR_O32_zero
    \/ modifiesRt(CpuUniqueId(w)) /\ GetO32_rt(w) = GPR_O32_zero

references_uninitialized(w) ==
    \/ has_operand_input(w, "cpu_rs") /\ GetO32_rs(w) \notin gpr_reg_states
    \/ has_operand_input(w, "cpu_rd") /\ GetO32_rd(w) \notin gpr_reg_states
    \/ has_operand_input(w, "cpu_rt") /\ GetO32_rt(w) \notin gpr_reg_states
    \/ has_operand_input(w, "cpu_fs") /\ GetO32_fs(w) \notin fpr_reg_states
    \/ has_operand_input(w, "cpu_fd") /\ GetO32_fd(w) \notin fpr_reg_states
    \/ has_operand_input(w, "cpu_ft") /\ GetO32_ft(w) \notin fpr_reg_states

is_invalid_start_instruction(w) ==
    LET id == CpuUniqueId(w)
    IN  \/ id = "cpu_nop"
        \/ ~is_valid(w)
        \/ has_zero_output(w)
        \/ references_uninitialized(w)
        \/ id \in {"cpu_b", "cpu_j"}
        \/ id \in {"cpu_jal", "cpu_jalr"}
        \/ id = "cpu_jr" /\ GetO32_rs(w) = GPR_O32_zero
        \/ /\ id \in {"cpu_sll", "cpu_srl", "cpu_sra", "cpu_dsll", "cpu_dsll32",
                      "cpu_dsrl", "cpu_dsrl32", "cpu_dsra", "cpu_dsra32"}
           /\ GetO32_rt(w) = GPR_O32_zero /\ Get_sa(w) # 0
        \/ id \in {"cpu_mthi", "cpu_mtlo"}
        \/ id \in {"cpu_bc1t", "cpu_bc1f", "cpu_bc1tl", "cpu_bc1fl"}
        \/ id \in {"cpu_add", "cpu_sub"}

\* is_invalid_start_instruction tabulated over Words
invalid_start == [w \in Words |-> is_invalid_start_instruction(w)]

\* the loop of count_invalid_start_instructions: the index of the first
\* instruction from rom_start on that is_invalid_start_instruction does not
\* reject; FAULT when the walk leaves the readable memory
count_walk(rom_start) ==
    LET stops == {a \in Offsets(rom_start, Mapped) : ~invalid_start[read32(a)]}
    IN  IF stops = {}
        THEN FAULT
        ELSE (Lowest(stops) - rom_start) \div instruction_size

\* count_invalid_start_instructions as it would be if it returned the index of
\* the last rejected instruction instead of the first accepted one
count_one_short(region) ==
    LET instr_index == count_walk(region.rom_start)
    IN  IF instr_index > 0 THEN instr_index - 1 ELSE instr_index

count_invalid_start_instructions(region) == count_walk(region.rom_start)

----------------------------------------------------------------------------
(* Region trimmer *)

RomRegion(new_rom_start, new_rom_end) ==
    [rom_start |-> new_rom_start, rom_end |-> new_rom_end, has_rsp |-> FALSE]

\* what trim_region leaves when it read past the readable memory
FaultRegion == [rom_start |-> FAULT, rom_end |-> FAULT, has_rsp |-> FALSE]

\* while (read32(start) == 0 && end > start) start += instruction_size: the
\* first offset from start on that holds a nonzero word or is not below end;
\* FAULT when the read leaves the readable memory
strip_zeros(start, end) ==
    LET stops == {a \in Offsets(start, Max(start, end) + instruction_size) :
                        a >= Mapped \/ ~(read32(a) = NOP /\ end > a)}
        stop == Lowest(stops)
    IN  IF stop >= Mapped THEN FAULT ELSE stop

RECURSIVE trim_end_no_delay_slot(_, _)
\* the backward scan as it would be if it looked one instruction back
\* (4 bytes before the end) instead of two
trim_end_no_delay_slot(start, end) ==
    IF ~is_unconditional_branch(read32(end - instruction_size)) /\ end > start
    THEN trim_end_no_delay_slot(start, end - instruction_size)
    ELSE end

RECURSIVE trim_end_wrong_bound(_, _)
\* the backward scan as it would be if it compared end with 0x1000 instead of
\* with start
trim_end_wrong_bound(start, end) ==
    IF ~is_unconditional_branch(read32(end - 2 * instruction_size)) /\ end > code_base
    THEN trim_end_wrong_bound(start, end - instruction_size)
    ELSE end

RECURSIVE trim_end_do_while(_, _)
\* the backward scan as it would be as a do-while loop: end is decremented
\* once before the first test
trim_end_do_while(start, end) ==
    IF ~is_unconditional_branch(read32(end - 3 * instruction_size))
            /\ end - instruction_size > start
    THEN trim_end_do_while(start, end - instruction_size)
    ELSE end - instruction_size

\* the backward scan of trim_region for an unconditional branch: end goes
\* down from its first value to the first one that has such a branch at
\* end - 8 or is not above start
trim_end(start, end) ==
    IF end > start
    THEN Highest({e \in Offsets(start, end + instruction_size) :
                        e = start \/ is_unconditional_branch(read32(e - 2 * instruction_size))})
    ELSE end

trim_region(codeseg) ==
    LET invalid_start_count == count_invalid_start_instructions(codeseg)
    IN  IF invalid_start_count = FAULT
        THEN FaultRegion
        ELSE LET start == strip_zeros(codeseg.rom_start + invalid_start_count * instruction_size,
                                      codeseg.rom_end)
             IN  IF start = FAULT
                 THEN FaultRegion
                 ELSE [codeseg EXCEPT !.rom_start = start,
                                      !.rom_end = trim_end(start, codeseg.rom_end)]

\* lowest and highest offset trim_region reads on codeseg, trimmed being its result
trim_min_read(codeseg, trimmed) ==
    IF trimmed = FaultRegion
    THEN Min(codeseg.rom_start, codeseg.rom_end - 2 * instruction_size)
    ELSE Min(codeseg.rom_start, trimmed.rom_end - 2 * instruction_size)

trim_max_read(codeseg, trimmed) ==
    IF trimmed = FaultRegion
    THEN Mapped
    ELSE Max(trimmed.rom_start, codeseg.rom_end - 2 * instruction_size)

----------------------------------------------------------------------------
(* Gap validators *)

\* 0xFFFFFFFF
no_prev_word == <<63, 31, 31, 65535>>

\* identical_count when the loop of check_range_cpu or check_range_rsp is at
\* offset: the number of words before it, back to rom_start, that form with
\* it a run of identical words, 3 standing for 3 or more; a first word equal
\* to the initial prev_word counts one more
identical_count(rom_start, offset) ==
    LET same(k) == /\ offset - k * instruction_size >= rom_start
                   /\ \A j \in 1..k : read32(offset - j * instruction_size) = read32(offset)
        initial(k) == /\ offset - k * instruction_size = rom_start
                      /\ read32(offset) = no_prev_word
                      /\ \A j \in 1..k : read32(offset - j * instruction_size) = read32(offset)
    IN  IF same(3) \/ initial(2) THEN 3
        ELSE IF same(2) \/ initial(1) THEN 2
        ELSE IF same(1) \/ initial(0) THEN 1
        ELSE 0

\* the loop returns false at the first offset where a load or store has been
\* repeated or the word is not valid
check_range_cpu_loop(rom_start, rom_end) ==
    \A offset \in Offsets(rom_start, rom_end) :
        LET id == CpuUniqueId(read32(offset))
        IN  /\ ~(identical_count(rom_start, offset) >= 3 /\ (doesLoad(id) \/ doesStore(id)))
            /\ is_valid(read32(offset))

\* check_range_cpu as it would be if its loop began at the second word
check_range_cpu_from_second_word(rom_start, rom_end) ==
    check_range_cpu_loop(rom_start + instruction_size, rom_end)

check_range_cpu(rom_start, rom_end) ==
    check_range_cpu_loop(rom_start, rom_end)

check_range_rsp_loop(rom_start, rom_end) ==
    \A offset \in Offsets(rom_start, rom_end) :
        LET id == RspUniqueId(read32(offset))
        IN  /\ ~(identical_count(rom_start, offset) >= 3 /\ (doesLoad(id) \/ doesStore(id)))
            /\ is_valid_rsp(read32(offset))

\* check_range_rsp as it would be if it returned after the first word
check_range_rsp_first_word(rom_start, rom_end) ==
    ~(rom_start < rom_end) \/ rsp_valid_at(rom_start)

check_range_rsp(rom_start, rom_end) ==
    check_range_rsp_loop(rom_start, rom_end)

----------------------------------------------------------------------------
(* Region discovery driver: find_code_regions *)

RECURSIVE advance_it(_, _)
\* while (it != return_addrs.end() && *it < rom_end) it++
advance_it(i, rom_end) ==
    IF i <= Len(return_addrs) /\ return_addrs[i] < rom_end
    THEN advance_it(i + 1, rom_end)
    ELSE i

\* the RSP tail loop: rom_end advances to the first offset that is not inside
\* the buffer or holds a word that is no valid RSP instruction
rsp_extend(rom_end) ==
    LET stops == {a \in Offsets(rom_end, Max(rom_end, rom_size) + instruction_size) :
                        ~(a < rom_size /\ rsp_valid_at(a))}
    IN  Lowest(stops)

\* the size_t comparison as it would be with <= in place of <
size_t_diff_at_most(a, b, bound) == a >= b /\ a - b <= bound

\* a - b < bound in size_t arithmetic: when a < b the difference wraps around
\* to a value near 2^64, which is not below any bound used here
size_t_diff_below(a, b, bound) == a >= b /\ a - b < bound

\* pop_back as it would be if it removed one element more
DropLastAndOneMore(seq, n) == SubSeq(seq, 1, Len(seq) - n - 1)

\* ret.pop_back(): all but the last n elements
DropLast(seq, n) == SubSeq(seq, 1, Len(seq) - n)

\* line 223: return_addrs = find_return_locations(rom_bytes), and the first
\* test of the loop condition
Scan ==
    /\ pc = "scan"
    /\ LET found == find_return_locations
       IN  IF found = <<FAULT>>
           THEN /\ pc' = "fault"
                /\ UNCHANGED <<return_addrs, it>>
           ELSE /\ return_addrs' = found
                /\ it' = 1
                /\ pc' = IF Len(found) = 0 THEN "done" ELSE "grow"
    /\ min_read' = IF rom_size > code_base THEN ReadLo(min_read, code_base) ELSE min_read
    /\ max_read' = IF rom_size > code_base THEN ReadHi(max_read, scan_max_read) ELSE max_read
    /\ UNCHANGED <<valid_range, image, rom_size, ret>>

\* lines 227-235: grow a region around *it, skip the return sites inside it,
\* trim it
Grow ==
    /\ pc = "grow"
    /\ LET region_start == find_code_start(return_addrs[it])
           region_end == find_code_end(return_addrs[it])
           grown == RomRegion(region_start, region_end)
           trimmed == trim_region(grown)
       IN  IF region_end = FAULT \/ trimmed = FaultRegion
           THEN /\ pc' = "fault"
                /\ max_read' = ReadHi(max_read, Mapped)
                /\ UNCHANGED <<it, ret, min_read>>
           ELSE /\ ret' = Append(ret, trimmed)
                /\ it' = advance_it(it, region_end)
                /\ pc' = "merge"
                /\ min_read' = ReadLo(min_read, trim_min_read(grown, trimmed))
                /\ max_read' = ReadHi(max_read, Max(region_end, trim_max_read(grown, trimmed)))
    /\ UNCHANGED <<valid_range, image, rom_size, return_addrs>>

\* lines 238-255: merge the new region into its predecessor when the gap
\* between them is short and is valid CPU or RSP code
Merge ==
    /\ pc = "merge"
    /\ LET cur == ret[Len(ret)]
       IN  IF Len(ret) > 1
              /\ size_t_diff_below(cur.rom_start, ret[Len(ret) - 1].rom_end,
                                   microcode_check_threshold)
           THEN LET prev == ret[Len(ret) - 1]
                    valid_cpu == check_range_cpu(prev.rom_end, cur.rom_start)
                    valid_rsp == ~valid_cpu /\ check_range_rsp(prev.rom_end, cur.rom_start)
                    flagged == IF valid_rsp THEN [prev EXCEPT !.has_rsp = TRUE] ELSE prev
                IN  ret' = IF valid_cpu \/ valid_rsp
                           THEN Append(DropLast(ret, 2),
                                       [flagged EXCEPT !.rom_end = cur.rom_end])
                           ELSE ret
           ELSE ret' = ret
    /\ pc' = "extend"
    /\ UNCHANGED <<valid_range, image, rom_size, return_addrs, it, min_read, max_read>>

\* lines 258-272 and the loop condition of line 226: extend a region that has
\* microcode through the valid RSP words after it, trim it again, skip the
\* return sites now inside it
Extend ==
    /\ pc = "extend"
    /\ LET back == ret[Len(ret)]
           extended == [back EXCEPT !.rom_end = rsp_extend(back.rom_end)]
           trimmed == trim_region(extended)
       IN  IF back.has_rsp
           THEN IF trimmed = FaultRegion
                THEN /\ pc' = "fault"
                     /\ max_read' = ReadHi(max_read, Mapped)
                     /\ UNCHANGED <<it, ret, min_read>>
                ELSE /\ ret' = Append(DropLast(ret, 1), trimmed)
                     /\ it' = advance_it(it, trimmed.rom_end)
                     /\ pc' = IF it' > Len(return_addrs) THEN "done" ELSE "grow"
                     /\ min_read' = ReadLo(min_read, trim_min_read(extended, trimmed))
                     /\ max_read' = ReadHi(max_read, trim_max_read(extended, trimmed))
           ELSE /\ pc' = IF it > Len(return_addrs) THEN "done" ELSE "grow"
                /\ UNCHANGED <<it, ret, min_read, max_read>>
    /\ UNCHANGED <<valid_range, image, rom_size, return_addrs>>

----------------------------------------------------------------------------
(* Inputs *)

\* the pieces the ROM images of find_code_regions are made of: a zero word, a
\* word that is no instruction, and jr $ra with each kind of delay slot
Chunks ==
    {<<NOP>>, <<INVALID_WORD>>,
     <<SWC1_FA0>>,
     <<jr_ra, NOP>>, <<jr_ra, LQV>>, <<jr_ra, SWC1_FA0>>}

\* the pieces the images of TrimSpec are made of: every single word
WordChunks == {<<w>> : w \in Words}

RECURSIVE Images(_, _)
\* the word sequences made of at most n of the given chunks
Images(chunks, n) ==
    IF n = 0
    THEN {<<>>}
    ELSE LET shorter == Images(chunks, n - 1)
         IN  shorter \cup {s \o c : s \in shorter, c \in chunks}

\* the sizes a buffer can have when at most MaxSlack of the words of img
\* are memory that follows it
BufferSizes(img) ==
    {code_base + instruction_size * (Len(img) - k) : k \in 0..Min(MaxSlack, Len(img))}

Init ==
    /\ image \in Images(Chunks, MaxChunks)
    /\ rom_size \in BufferSizes(image)
    /\ pc = "scan"
    /\ return_addrs = <<>>
    /\ it = 1
    /\ ret = <<>>
    /\ min_read = NoRead
    /\ max_read = NoRead
    /\ valid_range = FALSE

Next == Scan \/ Grow \/ Merge \/ Extend

Spec == Init /\ [][Next]_vars

----------------------------------------------------------------------------
(* trim_region applied twice to a region of the buffer *)

\* the offsets from code_base to rom_size, the end of the buffer included
BufferOffsets == {code_base + instruction_size * k : k \in 0..((rom_size - code_base) \div instruction_size)}

TrimInit ==
    /\ image \in Images(WordChunks, MaxTrimWords)
    /\ rom_size \in BufferSizes(image)
    /\ pc = "trim"
    /\ return_addrs = <<>>
    /\ it = 1
    /\ \E s \in BufferOffsets : \E e \in BufferOffsets :
            s <= e /\ ret = <<RomRegion(s, e)>>
    /\ min_read = NoRead
    /\ max_read = NoRead
    /\ valid_range = FALSE

\* trim_region(region, rom_bytes)
TrimOnce ==
    /\ pc = "trim"
    /\ LET trimmed == trim_region(ret[1])
       IN  /\ pc' = IF trimmed = FaultRegion THEN "fault" ELSE "trimmed"
           /\ ret' = <<ret[1], trimmed>>
           /\ min_read' = ReadLo(min_read, trim_min_read(ret[1], trimmed))
           /\ max_read' = ReadHi(max_read, trim_max_read(ret[1], trimmed))
    /\ UNCHANGED <<valid_range, image, rom_size, return_addrs, it>>

\* trim_region applied again to the region it left
TrimAgain ==
    /\ pc = "trimmed"
    /\ LET trimmed == trim_region(ret[2])
       IN  /\ pc' = IF trimmed = FaultRegion THEN "fault" ELSE "retrimmed"
           /\ ret' = <<ret[1], ret[2], trimmed>>
           /\ min_read' = ReadLo(min_read, trim_min_read(ret[2], trimmed))
           /\ max_read' = ReadHi(max_read, trim_max_read(ret[2], trimmed))
    /\ UNCHANGED <<valid_range, image, rom_size, return_addrs, it>>

TrimNext == TrimOnce \/ TrimAgain

TrimSpec == TrimInit /\ [][TrimNext]_vars

----------------------------------------------------------------------------
(* The gap validators applied to a range *)

\* the words the images of RangeSpec are made of: a nop, a CPU store that is
\* no RSP instruction, an RSP load that is no CPU instruction
RangeChunks == {<<NOP>>, <<SWC1_FA0>>, <<LQV>>}

\* the range [rom_start, rom_end) is kept in ret[1]
RangeInit ==
    /\ image \in Images(RangeChunks, MaxRangeWords)
    /\ rom_size = Mapped
    /\ pc = "range"
    /\ return_addrs = <<>>
    /\ it = 1
    /\ \E s \in BufferOffsets : \E e \in BufferOffsets :
            s <= e /\ ret = <<RomRegion(s, e)>>
    /\ min_read = NoRead
    /\ max_read = NoRead
    /\ valid_range = FALSE

\* bool valid_range = check_range_cpu(rom_start, rom_end, rom_bytes)
CheckRangeCpu ==
    /\ pc = "range"
    /\ valid_range' = check_range_cpu(ret[1].rom_start, ret[1].rom_end)
    /\ pc' = "cpu"
    /\ UNCHANGED <<image, rom_size, return_addrs, it, ret, min_read, max_read>>

\* valid_range = check_range_rsp(rom_start, rom_end, rom_bytes)
CheckRangeRsp ==
    /\ pc = "range"
    /\ valid_range' = check_range_rsp(ret[1].rom_start, ret[1].rom_end)
    /\ pc' = "rsp"
    /\ UNCHANGED <<image, rom_size, return_addrs, it, ret, min_read, max_read>>

RangeNext == CheckRangeCpu \/ CheckRangeRsp

RangeSpec == RangeInit /\ [][RangeNext]_vars

----------------------------------------------------------------------------
(* ROM loader: read_rom of main.cpp *)

\* In LoadSpec image is the file as a sequence of bytes, rom_size its length
\* and ret the byte vector read_rom builds.  A uint32_t value is kept as its
\* four bytes, most significant first; the host is little-endian, so the
\* value of four bytes in memory is those bytes in reverse order.

\* 0x40123780, 0x12408037 and 0x80371240
big_endian_word == <<64, 18, 55, 128>>

byteswapped_word == <<18, 64, 128, 55>>

little_endian_word == <<128, 55, 18, 64>>

\* __builtin_bswap32
byteswap(val) == <<val[4], val[3], val[2], val[1]>>

nearest_multiple_up(divisor, val) == ((val + divisor - 1) \div divisor) * divisor

\* read32(bytes, offset): the value of the four bytes at a byte offset
read32_bytes(bytes, offset) ==
    <<bytes[offset + 4], bytes[offset + 3], bytes[offset + 2], bytes[offset + 1]>>

\* the byte at byte offset j after *reinterpret_cast<uint32_t*>(data + offset) = val
stored_byte(val, offset, j) == val[4 - (j - offset)]

\* ret after resize and rom_file.read: the bytes of the file, then zero bytes
\* up to a multiple of 4
file_bytes ==
    [j \in 1..nearest_multiple_up(instruction_size, rom_size) |->
        IF j <= rom_size THEN image[j] ELSE 0]

\* the byte offsets the byte-swap loop visits:
\* for (i = 0; i < ret.size() / instruction_size; i += instruction_size)
swap_offsets(bytes) ==
    {i \in 0..(Len(bytes) - 1) : i % instruction_size = 0 /\ i < Len(bytes) \div instruction_size}

\* the vector after the byte-swap loop
swap_to_little_endian(bytes) ==
    [j \in 1..Len(bytes) |->
        LET i == ((j - 1) \div instruction_size) * instruction_size
        IN  IF i \in swap_offsets(bytes)
            THEN stored_byte(byteswap(read32_bytes(bytes, i)), i, j - 1)
            ELSE bytes[j]]

\* the first words of the files: the three known headers and another word
FirstWords == {<<128, 55, 18, 64>>, <<55, 128, 64, 18>>, <<64, 18, 55, 128>>, <<0, 0, 0, 0>>}

\* the other words of the files, as bytes in file order: jr $ra and a
\* word of four different bytes
FileWords == {<<3, 224, 0, 8>>, <<1, 2, 3, 4>>}

\* the bytes of an incomplete last word
FileEnds == {<<>>, <<5>>, <<5, 6, 7>>}

LoadInit ==
    /\ \E first \in FirstWords : \E body \in Images(FileWords, MaxFileWords) :
            \E end \in FileEnds : image = first \o body \o end
    /\ rom_size = Len(image)
    /\ pc = "load"
    /\ return_addrs = <<>>
    /\ it = 1
    /\ ret = <<>>
    /\ min_read = NoRead
    /\ max_read = NoRead
    /\ valid_range = FALSE

\* read_rom(path): "exit" stands for exit(EXIT_FAILURE)
ReadRom ==
    /\ pc = "load"
    /\ LET first_word == read32_bytes(file_bytes, 0)
       IN  IF first_word = big_endian_word
           THEN ret' = swap_to_little_endian(file_bytes) /\ pc' = "loaded"
           ELSE IF first_word = byteswapped_word
                THEN ret' = file_bytes /\ pc' = "exit"
                ELSE IF first_word = little_endian_word
                     THEN ret' = file_bytes /\ pc' = "loaded"
                     ELSE ret' = file_bytes /\ pc' = "exit"
    /\ UNCHANGED <<image, rom_size, return_addrs, it, min_read, max_read, valid_range>>

LoadNext == ReadRom

LoadSpec == LoadInit /\ [][LoadNext]_vars

----------------------------------------------------------------------------
(* Inputs of the merge step: two functions and the gap between them *)

\* n copies of the word w
Repeat(w, n) == [i \in 1..n |-> w]

\* the lengths in words of the gaps: a few words, and the lengths around
\* microcode_check_threshold
GapLengths ==
    (1..MaxGapDelta)
        \cup {microcode_check_threshold \div instruction_size + d :
                    d \in (0 - MaxGapDelta)..MaxGapDelta}

\* the first word of a gap: valid for the RSP only, valid for neither
\* processor, valid for both
GapHeads == {LQV, INVALID_WORD, NOP}

\* what follows the second function
GapTails ==
    {<<INVALID_WORD>>, <<LQV, INVALID_WORD>>, <<LQV, NOP, SWC1_FA0>>,
     <<LQV, jr_ra, LQV, INVALID_WORD>>}

\* jr $ra; nop, a gap of n words (its first word, then nops), jr $ra; nop,
\* and a tail
GapImages ==
    {<<jr_ra, NOP>> \o <<head>> \o Repeat(NOP, n - 1) \o <<jr_ra, NOP>> \o tail :
        head \in GapHeads, n \in GapLengths, tail \in GapTails}

MergeInit ==
    /\ image \in GapImages
    /\ rom_size \in BufferSizes(image)
    /\ pc = "scan"
    /\ return_addrs = <<>>
    /\ it = 1
    /\ ret = <<>>
    /\ min_read = NoRead
    /\ max_read = NoRead
    /\ valid_range = FALSE

MergeSpec == MergeInit /\ [][Next]_vars

----------------------------------------------------------------------------
(* Properties of the regions find_code_regions returns *)

\* the offsets of the words of region r
OffsetsOf(r) ==
    {r.rom_start + instruction_size * k : k \in 0..((r.rom_end - r.rom_start) \div instruction_size - 1)}

\* the return sites of two functions, each ending in jr $ra and a delay slot,
\* with exactly 8 bytes of zero words between them: the second function is the
\* CPU code from first + 16 up to the delay slot of second
ZeroPaddedPair(first, second) ==
    /\ first + 4 * instruction_size <= second
    /\ second + instruction_size < rom_size
    /\ read32(first) = jr_ra /\ read32(second) = jr_ra
    /\ is_valid(read32(first + instruction_size))
    /\ read32(first + instruction_size) # NOP
    /\ read32(first + 2 * instruction_size) = NOP
    /\ read32(first + 3 * instruction_size) = NOP
    /\ read32(first + 4 * instruction_size) # NOP
    /\ \A k \in 4..((second - first) \div instruction_size + 1) :
            is_valid(read32(first + instruction_size * k))

ReturnSites == {code_base + instruction_size * k : k \in 0..(Len(image) - 1)}

\* every read so far was inside the ROM buffer
ReadsInBounds == max_read = NoRead \/ max_read + instruction_size <= rom_size

\* C1: in the returned list every adjacent pair of regions is disjoint and in
\* strictly ascending order: region[i].rom_end <= region[i+1].rom_start and
\* region[i].rom_start < region[i+1].rom_start.  Stated for the runs in which
\* no read left the buffer, so that a violation owes nothing to such a read.
C1_RegionsAscendingDisjoint ==
    (pc = "done" /\ ReadsInBounds) =>
        \A i \in 1..(Len(ret) - 1) :
            /\ ret[i].rom_end <= ret[i + 1].rom_start
            /\ ret[i].rom_start < ret[i + 1].rom_start

\* C2: every returned region has rom_start and rom_end that are multiples of 4
\* and lie in [0x1000, N], N being the size of the ROM buffer.
C2_BoundsAlignedInRom ==
    pc = "done" =>
        \A i \in 1..Len(ret) :
            /\ ret[i].rom_start % instruction_size = 0
            /\ ret[i].rom_end % instruction_size = 0
            /\ code_base <= ret[i].rom_start /\ ret[i].rom_start <= rom_size
            /\ code_base <= ret[i].rom_end /\ ret[i].rom_end <= rom_size

\* C3: every region of the list, at every step of find_code_regions and in
\* the returned list, has rom_start <= rom_end.
C3_StartNotAfterEnd ==
    \A i \in 1..Len(ret) : ret[i].rom_start <= ret[i].rom_end

\* C3 witness: a returned region that went through start-boundary stripping
\* (the word before its start is valid CPU code that was stripped), a merge and
\* the RSP tail extension, next to a region that trimming emptied.
C3_Witness ==
    /\ pc = "done"
    /\ ReadsInBounds
    /\ \E i \in 1..Len(ret) :
            /\ ret[i].has_rsp
            /\ ret[i].rom_start > code_base
            /\ is_valid(read32(ret[i].rom_start - instruction_size))
            /\ ret[i].rom_start < ret[i].rom_end
    /\ \E i \in 1..Len(ret) : ret[i].rom_start = ret[i].rom_end

\* C4: for every returned region the word at rom_end - 8 is an unconditional
\* non-linking branch and lies, with its delay slot, inside the region.
\* Stated for the runs in which no read left the buffer.
C4_EndsWithBranchAndDelaySlot ==
    (pc = "done" /\ ReadsInBounds) =>
        \A i \in 1..Len(ret) :
            /\ ret[i].rom_end - ret[i].rom_start >= 2 * instruction_size
            /\ is_unconditional_branch(read32(ret[i].rom_end - 2 * instruction_size))

\* C5 (as claimed): every returned region is a run of words that pass the CPU
\* validator, possibly followed by a tail of words that pass the RSP validator.
\* Stated for the runs in which no read left the buffer.
C5_CpuValidThenRspTail ==
    (pc = "done" /\ ReadsInBounds) =>
        \A i \in 1..Len(ret) :
            \E tail \in OffsetsOf(ret[i]) \cup {ret[i].rom_end} :
                \A o \in OffsetsOf(ret[i]) :
                    IF o < tail THEN is_valid(read32(o)) ELSE is_valid_rsp(read32(o))

\* C5 (amended): every word of a returned region passes the CPU validator, or
\* the region has has_rsp set and the word passes the RSP validator.
C5_CpuValidOrRspInFlagged ==
    pc = "done" =>
        \A i \in 1..Len(ret) :
            \A o \in OffsetsOf(ret[i]) :
                is_valid(read32(o)) \/ (ret[i].has_rsp /\ is_valid_rsp(read32(o)))

\* C5 witness: a returned region with has_rsp that holds a word only the RSP
\* validator accepts and a word only the CPU validator accepts.
C5_Witness ==
    /\ pc = "done"
    /\ ReadsInBounds
    /\ \E i \in 1..Len(ret) :
            /\ ret[i].has_rsp
            /\ \E o \in OffsetsOf(ret[i]) : ~is_valid(read32(o)) /\ is_valid_rsp(read32(o))
            /\ \E o \in OffsetsOf(ret[i]) : is_valid(read32(o)) /\ ~is_valid_rsp(read32(o))

\* C6: the instruction at rom_start of every region of the list is not
\* rejected by is_invalid_start_instruction.
C6_StartInstructionAccepted ==
    \A i \in 1..Len(ret) : ~is_invalid_start_instruction(read32(ret[i].rom_start))

\* C6 witness: a returned region with has_rsp, re-trimmed after the RSP tail
\* extension, whose start was moved past a rejected instruction that is valid
\* CPU code and not a nop (a store of the uninitialized $f12).
C6_Witness ==
    /\ pc = "done"
    /\ ReadsInBounds
    /\ \E i \in 1..Len(ret) :
            /\ ret[i].has_rsp
            /\ ret[i].rom_start > code_base
            /\ read32(ret[i].rom_start - instruction_size) # NOP
            /\ is_invalid_start_instruction(read32(ret[i].rom_start - instruction_size))
            /\ is_valid(read32(ret[i].rom_start - instruction_size))
            /\ \E o \in OffsetsOf(ret[i]) : ~is_valid(read32(o))

\* C7: trim_region is idempotent: applied to the region a first application
\* left, it changes neither rom_start nor rom_end.
C7_TrimIdempotent ==
    pc = "retrimmed" =>
        /\ ret[3].rom_start = ret[2].rom_start
        /\ ret[3].rom_end = ret[2].rom_end

\* C7 witness: a region whose first trim moved both its start and its end,
\* trimmed a second time.
C7_Witness ==
    /\ pc = "retrimmed"
    /\ ret[2].rom_start > ret[1].rom_start
    /\ ret[2].rom_end < ret[1].rom_end
    /\ ret[2].rom_start < ret[2].rom_end

\* C8: find_code_regions terminates: it has returned, or it is at a step it
\* can take (each of "scan", "grow", "merge" and "extend" enables its action);
\* it never stops inside a walk that left the readable memory.
C8_Terminates == pc = "done" \/ pc \in {"scan", "grow", "merge", "extend"}

\* C9: every 32-bit read is at an offset o with 0 <= o and o + 4 <= N.
C9_ReadsInsideBuffer ==
    min_read # NoRead => (min_read >= 0 /\ max_read + instruction_size <= rom_size)


\* r holds the words at offsets lo and hi - 4
Covers(r, lo, hi) == r.rom_start <= lo /\ hi <= r.rom_end

\* C10 (as claimed): two functions that each end in jr $ra and a delay slot
\* and are separated by exactly 8 bytes of zero words are returned as two
\* regions, one per function.
C10_ZeroPaddingSeparates ==
    (pc = "done" /\ ReadsInBounds) =>
        \A first \in ReturnSites : \A second \in ReturnSites :
            ZeroPaddedPair(first, second) =>
                \E i \in 1..Len(ret) : \E j \in 1..Len(ret) :
                    /\ i < j
                    /\ Covers(ret[i], first, first + 2 * instruction_size)
                    /\ Covers(ret[j], second, second + 2 * instruction_size)
                    /\ ret[i].rom_end <= ret[j].rom_start

\* C10 (amended): the zero words pass the CPU validator, so the two functions
\* and the padding between them are returned inside one region.
C10_ZeroPaddingJoins ==
    pc = "done" =>
        \A first \in ReturnSites : \A second \in ReturnSites :
            ZeroPaddedPair(first, second) =>
                \E i \in 1..Len(ret) :
                    Covers(ret[i], first, second + 2 * instruction_size)

\* C10 witness: find_code_regions has returned, with every read inside the
\* buffer, on a ROM that holds two such functions.
C10_Witness ==
    /\ pc = "done"
    /\ ReadsInBounds
    /\ \E first \in ReturnSites : \E second \in ReturnSites :
            ZeroPaddedPair(first, second)

\* the first offset from rom_end on that is outside the buffer or holds a
\* word the RSP validator rejects
RspRunEnd(rom_end, reached) ==
    /\ reached >= rom_end
    /\ \A o \in Offsets(rom_end, reached) : o < rom_size /\ is_valid_rsp(read32(o))
    /\ ~(reached < rom_size /\ is_valid_rsp(read32(reached)))

\* C11: in the merge step, when the gap between prev and cur is shorter than
\* 4096 bytes, fails check_range_cpu and passes check_range_rsp, cur is
\* discarded and one region remains with prev's rom_start, has_rsp set and
\* cur's rom_end; when the gap is 4096 bytes or more (in size_t arithmetic) or
\* passes neither check, the list is left as it is.  In the step that follows,
\* the end of a region with has_rsp is advanced through every following word
\* that passes is_valid_rsp before the region is trimmed again.
C11_MergeThroughRspGap ==
    [][/\ (pc = "merge" /\ Len(ret) > 1) =>
            LET prev == ret[Len(ret) - 1]
                cur == ret[Len(ret)]
                short == cur.rom_start >= prev.rom_end
                            /\ cur.rom_start - prev.rom_end < 4096
                cpu_ok == check_range_cpu(prev.rom_end, cur.rom_start)
                rsp_ok == check_range_rsp(prev.rom_end, cur.rom_start)
            IN  /\ (short /\ ~cpu_ok /\ rsp_ok) =>
                        ret' = Append(DropLast(ret, 2),
                                      [rom_start |-> prev.rom_start,
                                       rom_end |-> cur.rom_end,
                                       has_rsp |-> TRUE])
                /\ (~short \/ (~cpu_ok /\ ~rsp_ok)) => ret' = ret
       /\ (pc = "extend" /\ ret[Len(ret)].has_rsp /\ pc' # "fault") =>
            \E reached \in Offsets(ret[Len(ret)].rom_end,
                                    Max(ret[Len(ret)].rom_end, rom_size) + instruction_size) :
                /\ RspRunEnd(ret[Len(ret)].rom_end, reached)
                /\ ret' = Append(DropLast(ret, 1),
                                 trim_region([ret[Len(ret)] EXCEPT !.rom_end = reached]))
      ]_vars

\* C11 witness: two functions with a gap of 1023 words (4092 bytes) between
\* them that only the RSP validator accepts, returned as one region with
\* has_rsp whose end lies past the second function, every read having stayed
\* inside the buffer.
C11_Witness ==
    /\ pc = "done"
    /\ ReadsInBounds
    /\ image[3] = LQV
    /\ Len(image) > 1023 + 4
    /\ image[2 + 1023 + 1] = jr_ra
    /\ Len(ret) = 1
    /\ ret[1].has_rsp
    /\ ret[1].rom_start = code_base
    /\ ret[1].rom_end > code_base + instruction_size * (2 + 1023 + 2)

\* the range [lo, hi) holds n consecutive identical words, each of them the
\* word w
HoldsRun(lo, hi, w, n) ==
    \E o \in Offsets(lo, hi) :
        /\ o + n * instruction_size <= hi
        /\ \A k \in 0..(n - 1) : read32(o + k * instruction_size) = w

\* C12: check_range_cpu and check_range_rsp return false for every range
\* that holds three consecutive identical words that are loads or stores,
\* also when each of the words passes the validator.
C12_ThreeIdenticalRejected ==
    /\ pc = "cpu" =>
        \A w \in Words :
            (HoldsRun(ret[1].rom_start, ret[1].rom_end, w, 3)
                /\ (doesLoad(CpuUniqueId(w)) \/ doesStore(CpuUniqueId(w))))
            => ~valid_range
    /\ pc = "rsp" =>
        \A w \in Words :
            (HoldsRun(ret[1].rom_start, ret[1].rom_end, w, 3)
                /\ (doesLoad(RspUniqueId(w)) \/ doesStore(RspUniqueId(w))))
            => ~valid_range

\* the numbers of $fv0, $fv0f, $fa0, $fa0f, $fa1 and $fa1f in the O32 naming
\* of the coprocessor-1 registers
ArgumentFprs == {0, 1, 12, 13, 14, 15}

\* w is rejected by a rule of is_invalid_start_instruction other than the
\* read of an uninitialized floating-point register
RejectedApartFromFprs(w) ==
    LET id == CpuUniqueId(w)
    IN  \/ id = "cpu_nop"
        \/ ~is_valid(w)
        \/ has_zero_output(w)
        \/ has_operand_input(w, "cpu_rs") /\ GetO32_rs(w) \notin gpr_reg_states
        \/ has_operand_input(w, "cpu_rd") /\ GetO32_rd(w) \notin gpr_reg_states
        \/ has_operand_input(w, "cpu_rt") /\ GetO32_rt(w) \notin gpr_reg_states
        \/ id \in {"cpu_b", "cpu_j", "cpu_jal", "cpu_jalr"}
        \/ id = "cpu_jr" /\ GetO32_rs(w) = GPR_O32_zero
        \/ /\ id \in {"cpu_sll", "cpu_srl", "cpu_sra", "cpu_dsll", "cpu_dsll32",
                      "cpu_dsrl", "cpu_dsrl32", "cpu_dsra", "cpu_dsra32"}
           /\ GetO32_rt(w) = GPR_O32_zero /\ Get_sa(w) # 0
        \/ id \in {"cpu_mthi", "cpu_mtlo"}
        \/ id \in {"cpu_bc1t", "cpu_bc1f", "cpu_bc1tl", "cpu_bc1fl"}
        \/ id \in {"cpu_add", "cpu_sub"}

\* every floating-point register w reads is one of ArgumentFprs, and it reads
\* at least one
ReadsOnlyArgumentFprs(w) ==
    /\ has_operand_input(w, "cpu_fs") => GetO32_fs(w) \in ArgumentFprs
    /\ has_operand_input(w, "cpu_fd") => GetO32_fd(w) \in ArgumentFprs
    /\ has_operand_input(w, "cpu_ft") => GetO32_ft(w) \in ArgumentFprs
    /\ \E operand \in {"cpu_fs", "cpu_fd", "cpu_ft"} : has_operand_input(w, operand)

\* C13: $fa0, $fa0f, $fa1, $fa1f, $fv0 and $fv0f count as initialized, so a
\* head instruction that is otherwise acceptable and reads only these FPRs
\* and initialized GPRs is not counted as an invalid start instruction:
\* trim_region leaves rom_start on it.
C13_ArgumentFprsInitialized ==
    (pc = "trimmed" /\ ret[1].rom_start < rom_size) =>
        LET head == read32(ret[1].rom_start)
        IN  (~RejectedApartFromFprs(head) /\ ReadsOnlyArgumentFprs(head)) =>
                ret[2].rom_start = ret[1].rom_start

\* C14: when the first word of the file is 0x40123780, every 4-byte word of
\* the buffer read_rom returns is the byte-swap of the word read from the
\* file at that offset.
C14_EveryWordSwapped ==
    (pc = "loaded" /\ read32_bytes(file_bytes, 0) = big_endian_word) =>
        \A k \in 0..(Len(ret) \div instruction_size - 1) :
            read32_bytes(ret, instruction_size * k)
                = byteswap(read32_bytes(file_bytes, instruction_size * k))

\* the offsets up to old_end - 8 that hold b, j or jr
BranchesBefore(old_end) ==
    {a \in Offsets(code_base - 2 * instruction_size, old_end - instruction_size) :
        is_unconditional_branch(read32(a))}

\* C15: trim_region never increases rom_end, and it cuts rom_end back to
\* exactly 8 bytes past the highest offset a <= old rom_end - 8 that holds b,
\* j or jr, provided a + 8 is not below the trimmed rom_start: every word
\* after the delay slot of that branch is removed, valid CPU code or not.
C15_EndCutToLastBranch ==
    pc = "trimmed" =>
        /\ ret[2].rom_end <= ret[1].rom_end
        /\ \A a \in BranchesBefore(ret[1].rom_end) :
                (a = Highest(BranchesBefore(ret[1].rom_end))
                    /\ a + 2 * instruction_size >= ret[2].rom_start)
                => ret[2].rom_end = a + 2 * instruction_size

\* C15 witness: a trimmed region that lost valid CPU instructions after the
\* delay slot of its last unconditional branch.
C15_Witness ==
    /\ pc = "trimmed"
    /\ ret[2].rom_start < ret[2].rom_end
    /\ ret[2].rom_end < ret[1].rom_end
    /\ ret[1].rom_end <= rom_size
    /\ is_unconditional_branch(read32(ret[2].rom_end - 2 * instruction_size))
    /\ \A o \in Offsets(ret[2].rom_end, ret[1].rom_end) : is_valid(read32(o)) /\ read32(o) # NOP

\* the regions of the list up to index n are the same after the step
KeepsRegions(n) ==
    \A i \in 1..n : Len(ret') >= i /\ ret'[i] = ret[i]

\* C16: at the end of an iteration of the driver loop every region but the
\* last is final.  Step by step: growing a new region changes no region of
\* the list, the merge step changes only the region immediately before the
\* newly appended one (and removes the new one), and the RSP tail extension
\* changes only the last region; so a region that is not the last when an
\* iteration ends is never changed again.
C16_EarlierRegionsFinal ==
    [][/\ pc = "grow" => KeepsRegions(Len(ret))
       /\ pc = "merge" =>
            /\ KeepsRegions(Len(ret) - 2)
            /\ ret' # ret =>
                /\ Len(ret') = Len(ret) - 1
                /\ ret'[Len(ret')].rom_start = ret[Len(ret) - 1].rom_start
       /\ pc = "extend" => KeepsRegions(Len(ret) - 1) /\ Len(ret') = Len(ret)
      ]_vars

\* C16 witness: find_code_regions has returned a list whose last region was
\* formed by a merge through RSP code while an earlier region was in the list.
C16_Witness ==
    /\ pc = "done"
    /\ ReadsInBounds
    /\ Len(ret) >= 2
    /\ ret[Len(ret)].has_rsp
    /\ ~ret[1].has_rsp

\* C17: a merge through the CPU gap check happens only when the predecessor
\* already has has_rsp set: the gap after a predecessor that is not flagged
\* holds a word the CPU validator rejects.  So every merge leaves a region
\* with has_rsp set, and the flag of a region is never cleared afterwards.
C17_CpuMergeOnlyAfterRsp ==
    [][/\ (pc = "merge" /\ Len(ret) > 1) =>
            LET prev == ret[Len(ret) - 1]
                cur == ret[Len(ret)]
            IN  /\ (~prev.has_rsp /\ prev.rom_end <= cur.rom_start) =>
                        \E o \in Offsets(prev.rom_end, cur.rom_start) : ~is_valid(read32(o))
                /\ Len(ret') < Len(ret) =>
                        /\ check_range_cpu(prev.rom_end, cur.rom_start) => prev.has_rsp
                        /\ ret'[Len(ret')].has_rsp
       /\ \A i \in 1..Min(Len(ret), Len(ret')) : ret[i].has_rsp => ret'[i].has_rsp
      ]_vars

\* C17 witness: a returned region with has_rsp that holds a word only the CPU
\* validator accepts right after a word only the RSP validator accepts and
\* before further code of the region: that word was the gap of a merge
\* through check_range_cpu.
C17_Witness ==
    /\ pc = "done"
    /\ ReadsInBounds
    /\ \E i \in 1..Len(ret) :
            /\ ret[i].has_rsp
            /\ \E o \in OffsetsOf(ret[i]) :
                    /\ is_valid(read32(o)) /\ ~is_valid_rsp(read32(o))
                    /\ o - instruction_size >= ret[i].rom_start
                    /\ ~is_valid(read32(o - instruction_size))
                    /\ o + 2 * instruction_size <= ret[i].rom_end
                    /\ is_invalid_start_instruction(read32(o))

====
